---- MODULE Spec2Model ----
(***************************************************************************)
(* Reconciliation, notification decision and retry orchestration of the    *)
(* Brightspace agent (src/main.py, src/modules/scraper.py,                 *)
(* src/modules/database.py, src/modules/notifier.py,                       *)
(* src/modules/auth_manager.py).                                           *)
(*                                                                         *)
(* Conventions.  Python None / SQL NULL is the empty tuple and a present   *)
(* value v is <<v>>.  Text that the code rewrites character by character   *)
(* (titles, ids) is a tuple of one-character strings.  Time is an integer  *)
(* number of hours; datetime.now() is the variable now.  An ISO date       *)
(* string written by isoformat() and read back by fromisoformat() is the   *)
(* time value it denotes.                                                  *)
(***************************************************************************)
EXTENDS Integers, Sequences, FiniteSets, TLC

VARIABLES
    store,          \* table assignments of the account's database: id -> row
    sync_history,   \* table sync_history: the rows in insertion order
    portal,         \* the rows the portal serves to the scraper
    now,            \* datetime.now()
    op,             \* the store or portal operation that ran last
    snapshot,       \* all_assignments of the last sync_to_database
    result,         \* what the last sync_to_database returned or raised
    resync,         \* the last sync_to_database scraped what the one
                    \* right before it had scraped
    ACCOUNTS,       \* config.accounts.ACCOUNTS as read from the environment
    notified,       \* what the calls of _send_notifications did, in order
    databases,      \* the database behind each account's db_file
    files,          \* the cookie files on disk
    pc,             \* where the orchestrator stands
    account_index,  \* position in ACCOUNTS of the account being processed
    max_retries,    \* argument of process_account_with_retry
    attempt,        \* loop variable of process_account_with_retry
    attempts,       \* the attempts of the current account run, in order
    waits,          \* the time.sleep calls of the current account run
    results,        \* the list run() collects
    returned,       \* what process_account_with_retry returned last
    success_count   \* the success count of run()'s report

storeVars == <<store, sync_history, portal, op, snapshot, result, resync>>
notifyVars == <<ACCOUNTS, notified>>
runVars == <<databases, files, pc, account_index, max_retries, attempt,
             attempts, waits, results, returned, success_count>>

vars == <<store, sync_history, portal, now, op, snapshot, result, resync,
          ACCOUNTS, notified, databases, files, pc, account_index,
          max_retries, attempt, attempts, waits, results, returned,
          success_count>>

----------------------------------------------------------------------------
(* Bounds *)

MaxSnapshot == 2    \* rows the portal serves at most
MaxSyncs == 2       \* rows of sync_history
MaxPending == 2     \* pending assignments handed to one notification call

----------------------------------------------------------------------------
(* Values *)

None == <<>>
Some(v) == <<v>>

\* The orchestrator has not been started
RunIdle ==
    /\ databases = <<>>
    /\ files = {}
    /\ pc = "idle"
    /\ account_index = 0
    /\ max_retries = 0
    /\ attempt = 0
    /\ attempts = <<>>
    /\ waits = <<>>
    /\ results = <<>>
    /\ returned = None
    /\ success_count = None

Course == <<"c">>
Titles == { <<"h", " ", "1">>, <<"h", "_", "1">>, <<"q", "2">> }
PageUrl == "url"
TestGrade == 85

\* str.replace for one-character patterns
Replace(s, old, new) == [i \in 1..Len(s) |-> IF s[i] = old THEN new ELSE s[i]]

\* scraper.py:388
assignment_id(course_name, title) ==
    Replace(Replace(course_name \o <<"_">> \o title, " ", "_"), "/", "_")

Ids == { assignment_id(Course, t) : t \in Titles }

\* A table row as the scraper reads it: the title, how the date is written
\* ("echeance": Échéance ..., "disponible": Disponible jusqu'au ...,
\* "unparseable": a matched date text parse_date cannot read, "none": no
\* date text), the date, whether the text holds "soumission", and the score
\* of a "n / m - p %" note.
RawRow(title, dueKind, due, soumission, note) ==
    [title |-> title, course |-> Course, dueKind |-> dueKind, due |-> due,
     soumission |-> soumission, note |-> note]

\* The rows the portal can serve: a pending assignment, an overdue one
\* whose title yields the same id, a quiz whose window has closed, and an
\* assignment whose date text parse_date cannot read
PortalRows ==
    { RawRow(<<"h", " ", "1">>, "echeance", 2, FALSE, None),
      RawRow(<<"h", "_", "1">>, "echeance", -1, FALSE, None),
      RawRow(<<"q", "2">>, "disponible", -1, FALSE, None),
      RawRow(<<"q", "2">>, "unparseable", 0, FALSE, None) }

----------------------------------------------------------------------------
(* Scraper: parsing and filtering *)

\* A parser that tests the due date before the submission and the grade
_parse_assignment_text_OverdueFirst(row, t) ==
    LET title == row.title
        date_match == row.dueKind \in {"echeance", "disponible", "unparseable"}
        is_quiz == row.dueKind = "disponible"
        due_date == IF date_match /\ row.dueKind # "unparseable"
                    THEN Some(row.due) ELSE None
        is_submitted == row.soumission
        has_grade == row.note # None
        is_overdue == IF due_date # None THEN due_date[1] < t ELSE FALSE
        status == IF is_overdue
                       THEN (IF is_quiz THEN "missed" ELSE "overdue")
                  ELSE IF has_grade THEN "graded"
                  ELSE IF is_submitted THEN "submitted"
                  ELSE "pending"
        is_completed == IF is_overdue THEN is_quiz
                        ELSE IF has_grade THEN TRUE
                        ELSE IF is_submitted THEN TRUE
                        ELSE FALSE
    IN  IF Len(title) < 2
        THEN None
        ELSE Some([id |-> assignment_id(row.course, title),
                   title |-> title,
                   course |-> row.course,
                   due_date |-> due_date,
                   link |-> PageUrl,
                   is_completed |-> is_completed,
                   grade |-> row.note,
                   description |-> None,
                   status |-> status])

\* scraper.py:286-407.  None when the row is skipped.
_parse_assignment_text(row, t) ==
    LET title == row.title
        date_match == row.dueKind \in {"echeance", "disponible", "unparseable"}
        is_quiz == row.dueKind = "disponible"
        due_date == IF date_match /\ row.dueKind # "unparseable"
                    THEN Some(row.due) ELSE None
        is_submitted == row.soumission
        has_grade == row.note # None
        is_overdue == IF due_date # None THEN due_date[1] < t ELSE FALSE
        status == IF has_grade THEN "graded"
                  ELSE IF is_submitted THEN "submitted"
                  ELSE IF is_overdue
                       THEN (IF is_quiz THEN "missed" ELSE "overdue")
                  ELSE "pending"
        is_completed == IF has_grade THEN TRUE
                        ELSE IF is_submitted THEN TRUE
                        ELSE IF is_overdue THEN is_quiz
                        ELSE FALSE
    IN  IF Len(title) < 2
        THEN None
        ELSE Some([id |-> assignment_id(row.course, title),
                   title |-> title,
                   course |-> row.course,
                   due_date |-> due_date,
                   link |-> PageUrl,
                   is_completed |-> is_completed,
                   grade |-> row.note,
                   description |-> None,
                   status |-> status])

\* scraper.py:264-278: the rows that parse, in page order
ParseRows(rows, t) ==
    LET parsed == [i \in 1..Len(rows) |-> _parse_assignment_text(rows[i], t)]
        kept == SelectSeq(parsed, LAMBDA p : p # None)
    IN  [i \in 1..Len(kept) |-> kept[i][1]]

\* A filter that lets the missed records through
_filter_future_assignments_KeepMissed(assignments) ==
    SelectSeq(assignments, LAMBDA a : ~a.is_completed \/ a.status = "missed")

\* A filter that keeps every record
_filter_future_assignments_KeepAll(assignments) == assignments

\* scraper.py:409-420
_filter_future_assignments(assignments) ==
    SelectSeq(assignments, LAMBDA a : ~a.is_completed)

----------------------------------------------------------------------------
(* Database *)

\* sqlite3 stores a Python bool as the integer 0 or 1
SqlBool(b) == IF b THEN 1 ELSE 0

\* database.py:61: due_date DATETIME NOT NULL (title and course are never
\* None here)
NotNullViolated(assignment) == assignment.due_date = None

\* An update that writes the row afresh (REPLACE INTO): the columns it
\* does not name fall back to their defaults
UpdatedRow_Replace(row, assignment, t) ==
    [row EXCEPT !.title = assignment.title,
                !.course = assignment.course,
                !.due_date = assignment.due_date,
                !.is_completed = IF assignment.is_completed THEN 1 ELSE 0,
                !.grade = assignment.grade,
                !.link = assignment.link,
                !.description = assignment.description,
                !.created_at = t,
                !.updated_at = t,
                !.last_notified = <<>>,
                !.notification_count = 0]

\* database.py:130-145: the UPDATE statement
UpdatedRow(row, assignment, t) ==
    [row EXCEPT !.title = assignment.title,
                !.course = assignment.course,
                !.due_date = assignment.due_date,
                !.is_completed = SqlBool(assignment.is_completed),
                !.grade = assignment.grade,
                !.link = assignment.link,
                !.description = assignment.description,
                !.updated_at = t]

\* database.py:152-165 with the column defaults of database.py:62-69
InsertedRow(assignment, t) ==
    [id |-> assignment.id,
     title |-> assignment.title,
     course |-> assignment.course,
     due_date |-> assignment.due_date,
     is_completed |-> SqlBool(assignment.is_completed),
     grade |-> assignment.grade,
     link |-> assignment.link,
     description |-> assignment.description,
     created_at |-> t,
     updated_at |-> t,
     last_notified |-> None,
     notification_count |-> 0]

\* An upsert that never finds the existing row (INSERT OR REPLACE)
save_assignment_AlwaysInsert(st, assignment, t) ==
    IF NotNullViolated(assignment)
    THEN [store |-> st, is_new |-> FALSE, raised |-> TRUE]
    ELSE [store |-> [i \in DOMAIN st \cup {assignment.id} |->
                        IF i = assignment.id
                        THEN InsertedRow(assignment, t) ELSE st[i]],
          is_new |-> TRUE, raised |-> FALSE]

\* database.py:111-169.  raised: sqlite3.IntegrityError left the table as
\* it was.
save_assignment(st, assignment, t) ==
    LET exists == assignment.id \in DOMAIN st
    IN  IF NotNullViolated(assignment)
        THEN [store |-> st, is_new |-> FALSE, raised |-> TRUE]
        ELSE IF exists
        THEN [store |-> [st EXCEPT ![assignment.id] =
                                       UpdatedRow(@, assignment, t)],
              is_new |-> FALSE, raised |-> FALSE]
        ELSE [store |-> [i \in DOMAIN st \cup {assignment.id} |->
                            IF i = assignment.id
                            THEN InsertedRow(assignment, t) ELSE st[i]],
              is_new |-> TRUE, raised |-> FALSE]

\* database.py:253-272
mark_as_notified(st, assignment_id_, t) ==
    [i \in DOMAIN st |->
        IF i = assignment_id_
        THEN [st[i] EXCEPT !.last_notified = Some(t),
                           !.notification_count = @ + 1]
        ELSE st[i]]

\* A DELETE that is never committed
delete_assignment_Uncommitted(st, assignment_id_) == st

\* database.py:274-287
delete_assignment(st, assignment_id_) ==
    [i \in DOMAIN st \ {assignment_id_} |-> st[i]]

\* ORDER BY due_date ASC over a set of rows
RECURSIVE OrderByDueDate(_)
OrderByDueDate(rows) ==
    IF rows = {} THEN <<>>
    ELSE LET first == CHOOSE r \in rows :
                          \A q \in rows : r.due_date[1] <= q.due_date[1]
         IN  <<first>> \o OrderByDueDate(rows \ {first})

\* database.py:171-185
get_all_assignments(st) == OrderByDueDate({ st[i] : i \in DOMAIN st })

\* database.py:187-206
get_pending_assignments(st) ==
    OrderByDueDate({ st[i] : i \in { j \in DOMAIN st : st[j].is_completed = 0 } })

\* A log that records the number of insertions as the number found
log_sync_FoundIsNew(log, status, assignments_found, new, updated, error) ==
    Append(log, [status |-> status,
                 assignments_found |-> new,
                 new_assignments |-> new,
                 updated_assignments |-> updated,
                 error_message |-> error])

\* database.py:289-316.  A row's position in the sequence is its id.
log_sync(log, status, assignments_found, new, updated, error) ==
    Append(log, [status |-> status,
                 assignments_found |-> assignments_found,
                 new_assignments |-> new,
                 updated_assignments |-> updated,
                 error_message |-> error])

----------------------------------------------------------------------------
(* Reconciliation *)

SeqIds(assignments) == { assignments[i].id : i \in 1..Len(assignments) }

\* The cleaning loop without its is_completed test
IdsToDelete_AnyAbsent(st, current_ids) ==
    { i \in DOMAIN st : i \notin current_ids }

\* scraper.py:458-469: the stored ids the cleaning loop deletes
IdsToDelete(st, current_ids) ==
    { i \in DOMAIN st : i \notin current_ids /\ st[i].is_completed # 0 }

\* scraper.py:458-467: the cleaning loop's calls of delete_assignment
RECURSIVE DeleteLoop(_, _)
DeleteLoop(st, doomed) ==
    IF doomed = {} THEN st
    ELSE LET i == CHOOSE j \in doomed : TRUE
         IN  DeleteLoop(delete_assignment(st, i), doomed \ {i})

\* scraper.py:472-480: the save loop from item k on; it stops where
\* save_assignment raises
RECURSIVE SaveLoop(_, _, _, _, _, _)
SaveLoop(st, pending, k, new_count, updated_count, t) ==
    IF k > Len(pending)
    THEN [store |-> st, new |-> new_count, updated |-> updated_count,
          raised |-> FALSE]
    ELSE LET s == save_assignment(st, pending[k], t)
         IN  IF s.raised
             THEN [store |-> s.store, new |-> new_count,
                   updated |-> updated_count, raised |-> TRUE]
             ELSE IF s.is_new
             THEN SaveLoop(s.store, pending, k + 1, new_count + 1,
                           updated_count, t)
             ELSE SaveLoop(s.store, pending, k + 1, new_count,
                           updated_count + 1, t)

\* What sync_to_database hands back: outcome "returned" with the dict of
\* scraper.py:443 or 496-503, or outcome "raised" with the counters as they
\* stood when the exception left the function.
SyncResult(outcome, total, new, updated, deleted) ==
    [outcome |-> outcome, status |-> "success", total |-> total, new |-> new,
     updated |-> updated, deleted |-> deleted]

\* A reconciliation without the early return for an empty scrape: the
\* cleaning loop runs against an empty set of current ids
sync_to_database_NoEarlyReturn(st, log, all_assignments, t) ==
    LET pending_assignments == _filter_future_assignments(all_assignments)
        current_ids == SeqIds(pending_assignments)
        doomed == IdsToDelete(st, current_ids)
        cleaned == DeleteLoop(st, doomed)
        deleted_count == Cardinality(doomed)
        saved == SaveLoop(cleaned, pending_assignments, 1, 0, 0, t)
    IN  IF saved.raised
        THEN [store |-> saved.store,
              sync_history |-> log,
              result |-> SyncResult("raised", Len(pending_assignments),
                                    saved.new, saved.updated, deleted_count)]
        ELSE [store |-> saved.store,
              sync_history |-> log_sync(log, "success",
                                        Len(pending_assignments),
                                        saved.new, saved.updated, None),
              result |-> SyncResult("returned", Len(pending_assignments),
                                    saved.new, saved.updated, deleted_count)]

\* scraper.py:422-503 from the scraped list on
sync_to_database(st, log, all_assignments, t) ==
    IF all_assignments = <<>>
    THEN [store |-> st,
          sync_history |-> log_sync(log, "success", 0, 0, 0, None),
          result |-> SyncResult("returned", 0, 0, 0, 0)]
    ELSE LET pending_assignments == _filter_future_assignments(all_assignments)
             current_ids == SeqIds(pending_assignments)
             doomed == IdsToDelete(st, current_ids)
             cleaned == DeleteLoop(st, doomed)
             deleted_count == Cardinality(doomed)
             saved == SaveLoop(cleaned, pending_assignments, 1, 0, 0, t)
         IN  IF saved.raised
             THEN [store |-> saved.store,
                   sync_history |-> log,
                   result |-> SyncResult("raised", Len(pending_assignments),
                                         saved.new, saved.updated,
                                         deleted_count)]
             ELSE [store |-> saved.store,
                   sync_history |-> log_sync(log, "success",
                                             Len(pending_assignments),
                                             saved.new, saved.updated, None),
                   result |-> SyncResult("returned", Len(pending_assignments),
                                         saved.new, saved.updated,
                                         deleted_count)]

----------------------------------------------------------------------------
(* The store machine: one account's database under reconciliations *)

NoResult == SyncResult("none", 0, 0, 0, 0)

\* database.py:410-439: records a store client saves directly, one
\* pending and one completed
DirectAssignments ==
    { [id |-> assignment_id(Course, <<"q", "2">>), title |-> <<"q", "2">>,
       course |-> Course, due_date |-> Some(2), link |-> None,
       is_completed |-> c, grade |-> IF c THEN Some(TestGrade) ELSE None,
       description |-> None] : c \in BOOLEAN }

Init ==
    /\ store = <<>>
    /\ sync_history = <<>>
    /\ portal = <<>>
    /\ now = 0
    /\ op = "init"
    /\ snapshot = <<>>
    /\ result = NoResult
    /\ resync = FALSE
    /\ ACCOUNTS = <<>>
    /\ notified = <<>>
    /\ RunIdle

\* scraper.py:422-503.  scraped: the scrape reached the table rows; when
\* it did not (no session, no course card, an exception) it returned [].
SyncToDatabase(scraped) ==
    /\ Len(sync_history) < MaxSyncs
    /\ LET all_assignments == IF scraped THEN ParseRows(portal, now) ELSE <<>>
           r == sync_to_database(store, sync_history, all_assignments, now)
       IN  /\ store' = r.store
           /\ sync_history' = r.sync_history
           /\ result' = r.result
           /\ snapshot' = all_assignments
           /\ resync' = (op = "sync" /\ all_assignments = snapshot)
    /\ op' = "sync"
    /\ UNCHANGED <<portal, now>>
    /\ UNCHANGED <<notifyVars, runVars>>

\* The portal shows one more row
PortalAdd(row) ==
    /\ Len(portal) < MaxSnapshot
    /\ portal' = Append(portal, row)
    /\ op' = "portal"
    /\ snapshot' = <<>>
    /\ result' = NoResult
    /\ resync' = FALSE
    /\ UNCHANGED <<store, sync_history, now>>
    /\ UNCHANGED <<notifyVars, runVars>>

\* The portal stops showing its first row
PortalDrop ==
    /\ portal # <<>>
    /\ portal' = Tail(portal)
    /\ op' = "portal"
    /\ snapshot' = <<>>
    /\ result' = NoResult
    /\ resync' = FALSE
    /\ UNCHANGED <<store, sync_history, now>>
    /\ UNCHANGED <<notifyVars, runVars>>

\* database.py:437-439: a store client saves a record
SaveAssignment(assignment) ==
    /\ store' = save_assignment(store, assignment, now).store
    /\ op' = "save"
    /\ snapshot' = <<>>
    /\ result' = NoResult
    /\ resync' = FALSE
    /\ UNCHANGED <<sync_history, portal, now>>
    /\ UNCHANGED <<notifyVars, runVars>>

Next ==
    \/ \E scraped \in BOOLEAN : SyncToDatabase(scraped)
    \/ \E row \in PortalRows : PortalAdd(row)
    \/ PortalDrop
    \/ \E a \in DirectAssignments : SaveAssignment(a)

Spec == Init /\ [][Next]_vars

\* The database under the pipeline alone: reconciliations of what the
\* portal serves, and no other client of the store
NextPipeline ==
    \/ \E scraped \in BOOLEAN : SyncToDatabase(scraped)
    \/ \E row \in PortalRows : PortalAdd(row)
    \/ PortalDrop

SpecPipeline == Init /\ [][NextPipeline]_vars

----------------------------------------------------------------------------
(* Reconciliation properties *)

\* A step that is one whole sync_to_database
SyncStep == \E scraped \in BOOLEAN : SyncToDatabase(scraped)

\* The columns a snapshot record supplies
RecordSet(st) ==
    [i \in DOMAIN st |->
        [title |-> st[i].title, course |-> st[i].course,
         due_date |-> st[i].due_date, is_completed |-> st[i].is_completed,
         grade |-> st[i].grade, link |-> st[i].link,
         description |-> st[i].description]]

\* C1. Conservative retirement: a record that is stored with
\* is_completed = 0 before a reconciliation and whose id is not in the
\* scraped snapshot is still stored after it.
C1_ConservativeRetirement ==
    [][SyncStep =>
         \A i \in DOMAIN store :
            (store[i].is_completed = 0 /\ i \notin SeqIds(snapshot'))
                => i \in DOMAIN store']_vars

\* A reconciliation of a non-empty snapshot has kept an incomplete record
\* the snapshot does not hold
C1_Witness ==
    /\ op = "sync"
    /\ snapshot # <<>>
    /\ \E i \in DOMAIN store :
          store[i].is_completed = 0 /\ i \notin SeqIds(snapshot)

\* C2 as claimed. Safe retirement, the empty snapshot included: a record
\* stored with is_completed = 1 and absent from the snapshot is gone after
\* the reconciliation.
C2_SafeRetirementAlways ==
    [][SyncStep =>
         \A i \in DOMAIN store :
            (store[i].is_completed # 0 /\ i \notin SeqIds(snapshot'))
                => i \notin DOMAIN store']_vars

\* C2 amended. Safe retirement: when the scraped snapshot is not empty, a
\* record stored with is_completed = 1 whose id is not in the snapshot is
\* gone after the reconciliation; an empty snapshot retires nothing.
C2_SafeRetirement ==
    [][SyncStep =>
         /\ snapshot' # <<>> =>
               \A i \in DOMAIN store :
                  (store[i].is_completed # 0 /\ i \notin SeqIds(snapshot'))
                      => i \notin DOMAIN store'
         /\ snapshot' = <<>> => store' = store /\ result'.deleted = 0]_vars

\* A reconciliation of a non-empty snapshot has deleted a record
C2_Witness ==
    /\ op = "sync"
    /\ snapshot # <<>>
    /\ result.deleted > 0

\* C3. Idempotence: a reconciliation of the snapshot the reconciliation
\* right before it had scraped inserts nothing (new = 0) and leaves every
\* stored record's title, course, due_date, is_completed, grade, link and
\* description as they were.
C3_Idempotence ==
    [][(SyncStep /\ op = "sync" /\ snapshot' = snapshot) =>
         /\ result'.new = 0
         /\ RecordSet(store') = RecordSet(store)]_vars

\* The same non-empty snapshot has been reconciled twice in a row, the
\* second time updating records
C3_Witness ==
    /\ op = "sync"
    /\ resync
    /\ snapshot # <<>>
    /\ result.updated > 0

----------------------------------------------------------------------------
(* Accounts *)

UrgentThresholds == {2, 24}
MorningTime == "08:00"
EveningTime == "22:00"

\* accounts.py:21-30: the notification options one account can be given
\* through the environment
NotificationConfigs ==
    { [enabled |-> en,
       smart_fusion |-> f,
       new_assignments |-> TRUE,
       urgent_threshold |-> th,
       morning_summary |-> m,
       morning_summary_time |-> MorningTime,
       evening_summary |-> e,
       evening_summary_time |-> et] :
         en \in BOOLEAN, f \in BOOLEAN, th \in UrgentThresholds,
         m \in BOOLEAN, e \in BOOLEAN, et \in {EveningTime, MorningTime} }

\* accounts.py:11-31
get_account_config(account_num, notifications) ==
    [id |-> "account" \o ToString(account_num),
     name |-> "Account" \o ToString(account_num),
     email_recipient |-> "to" \o ToString(account_num),
     cookies_file |-> "data/account" \o ToString(account_num) \o "/cookies.enc",
     db_file |-> "data/account" \o ToString(account_num) \o "/assignments.db",
     notifications |-> notifications]

----------------------------------------------------------------------------
(* Notifier *)

\* accounts.py:46-49: the keys of EMAIL_CONFIG
EMAIL_CONFIG == {"sender", "password"}

\* notifier.py:17-31: enabled after the constructor.  EMAIL_CONFIG has no
\* key 'enabled', so get() gives True; reading a key EMAIL_CONFIG does not
\* have raises KeyError inside the try block, which sets enabled to False.
EmailNotifier_enabled ==
    {"sender_email", "sender_password"} \subseteq EMAIL_CONFIG

\* notifier.py:33-66: what send_email returns; yag.send either delivers or
\* raises
send_email(delivers) == IF ~EmailNotifier_enabled THEN FALSE ELSE delivers

\* A send_email that lets the failure of yag.send reach its caller
send_email_raises_Propagates(delivers) == ~delivers

\* notifier.py:45-66: whether send_email raises.  A disabled notifier
\* returns at once and the except clause answers every failure of yag.send
\* with False.
send_email_raises(delivers) == FALSE

\* The case tests of send_smart_notification with the urgent test ahead of
\* the combined one
SmartCase_UrgentFirst(new_assignments, urgent_assignments, time_of_day) ==
    LET has_new == Len(new_assignments) > 0
        has_urgent == Len(urgent_assignments) > 0
        is_summary_time == time_of_day \in {Some("morning"), Some("evening")}
    IN  IF has_urgent THEN "urgent_only"
        ELSE IF has_new /\ has_urgent THEN "combined"
        ELSE IF has_new THEN "new_only"
        ELSE IF is_summary_time THEN "summary"
        ELSE "none"

\* notifier.py:91-128: the branch send_smart_notification takes
SmartCase(new_assignments, urgent_assignments, time_of_day) ==
    LET has_new == Len(new_assignments) > 0
        has_urgent == Len(urgent_assignments) > 0
        is_summary_time == time_of_day \in {Some("morning"), Some("evening")}
    IN  IF has_new /\ has_urgent THEN "combined"
        ELSE IF has_new THEN "new_only"
        ELSE IF has_urgent THEN "urgent_only"
        ELSE IF is_summary_time THEN "summary"
        ELSE "none"

\* notifier.py:72-130.  emails: the messages composed and handed to
\* send_email, by kind.
send_smart_notification(new_assignments, urgent, all_assignments, tod, delivers) ==
    LET case == SmartCase(new_assignments, urgent, tod)
    IN  IF case = "none"
        THEN [case |-> case, emails |-> <<>>, returned |-> FALSE]
        ELSE [case |-> case, emails |-> <<case>>,
              returned |-> send_email(delivers)]

\* strftime('%H:%M') of a time on the hour
strftime_HM(t) ==
    LET h == t % 24
    IN  (IF h < 10 THEN "0" \o ToString(h) ELSE ToString(h)) \o ":00"

\* The urgency test with both comparisons weak
urgent_assignments_Inclusive(pending_assignments, urgent_threshold, t) ==
    SelectSeq(pending_assignments,
              LAMBDA a : /\ a.due_date # None
                         /\ 0 <= a.due_date[1] - t
                         /\ a.due_date[1] - t <= urgent_threshold)

\* main.py:178-187 and 235-244
urgent_assignments(pending_assignments, urgent_threshold, t) ==
    SelectSeq(pending_assignments,
              LAMBDA a : /\ a.due_date # None
                         /\ LET hours_left == a.due_date[1] - t
                            IN  0 < hours_left /\ hours_left < urgent_threshold)

\* A derivation that tests the evening summary first
time_of_day_EveningFirst(config, t) ==
    LET current_time == strftime_HM(t)
    IN  IF config.evening_summary /\ current_time = config.evening_summary_time
        THEN Some("evening")
        ELSE IF config.morning_summary
                /\ current_time = config.morning_summary_time
        THEN Some("morning")
        ELSE None

\* main.py:190-200
time_of_day(config, t) ==
    LET current_time == strftime_HM(t)
    IN  IF config.morning_summary /\ current_time = config.morning_summary_time
        THEN Some("morning")
        ELSE IF config.evening_summary
                /\ current_time = config.evening_summary_time
        THEN Some("evening")
        ELSE None

\* A separate mode in which a message for new assignments stands for the
\* urgent one as well
SeparateEmails_NewCoversUrgent(config, new_assignments, urgent, t) ==
    LET current_time == strftime_HM(t)
    IN  (IF config.new_assignments /\ new_assignments # <<>>
         THEN <<"new">>
         ELSE IF urgent # <<>> THEN <<"urgent">> ELSE <<>>)
        \o (IF config.morning_summary
               /\ current_time = config.morning_summary_time
            THEN <<"morning">> ELSE <<>>)
        \o (IF config.evening_summary
               /\ current_time = config.evening_summary_time
            THEN <<"evening">> ELSE <<>>)

\* main.py:217-270: the messages of the separate mode, in the order sent
SeparateEmails(config, new_assignments, urgent, t) ==
    LET current_time == strftime_HM(t)
    IN  (IF config.new_assignments /\ new_assignments # <<>>
         THEN <<"new">> ELSE <<>>)
        \o (IF urgent # <<>> THEN <<"urgent">> ELSE <<>>)
        \o (IF config.morning_summary
               /\ current_time = config.morning_summary_time
            THEN <<"morning">> ELSE <<>>)
        \o (IF config.evening_summary
               /\ current_time = config.evening_summary_time
            THEN <<"evening">> ELSE <<>>)

\* main.py:163-270
_send_notifications(account, new_assignments, pending_assignments, t, delivers) ==
    LET config == account.notifications
        urgent == urgent_assignments(pending_assignments,
                                     config.urgent_threshold, t)
        tod == time_of_day(config, t)
        smart == send_smart_notification(new_assignments, urgent,
                                         pending_assignments, tod, delivers)
    IN  [account |-> account.name,
         smart_fusion |-> config.smart_fusion,
         at |-> t,
         new_assignments |-> new_assignments,
         pending_assignments |-> pending_assignments,
         urgent_assignments |-> urgent,
         time_of_day |-> IF config.smart_fusion THEN tod ELSE None,
         case |-> IF config.smart_fusion THEN smart.case ELSE "separate",
         emails |-> IF config.smart_fusion THEN smart.emails
                    ELSE SeparateEmails(config, new_assignments, urgent, t),
         delivered |-> send_email(delivers),
         raised |-> LET emails == IF config.smart_fusion THEN smart.emails
                                  ELSE SeparateEmails(config, new_assignments,
                                                      urgent, t)
                    IN  emails # <<>> /\ send_email_raises(delivers)]

----------------------------------------------------------------------------
(* The notification stage on its own: one account, one clock reading, and
   calls of _send_notifications with lists of stored rows *)

NotifyClocks == {8, 9, 22}

\* A row as database.py:171-206 returns it, with the given due date
NotifyRow(id, due_date) ==
    [InsertedRow([id |-> id, title |-> <<"t">>, course |-> Course,
                  due_date |-> Some(0), link |-> None, is_completed |-> FALSE,
                  grade |-> None, description |-> None], 0)
        EXCEPT !.due_date = due_date]

\* Due dates around the bounds of the urgency window of an account at t
NotifyDues(account, t) ==
    {None} \cup
    { Some(t + d) : d \in {-1, 0, 1,
                           account.notifications.urgent_threshold - 1,
                           account.notifications.urgent_threshold,
                           account.notifications.urgent_threshold + 1} }

\* The lists of at most n rows with ids "a", "b", ... in this order
RECURSIVE NotifyLists(_, _, _)
NotifyLists(ids, dues, n) ==
    IF n = 0 \/ ids = <<>> THEN { <<>> }
    ELSE { <<>> } \cup
         { <<NotifyRow(Head(ids), d)>> \o rest :
              d \in dues, rest \in NotifyLists(Tail(ids), dues, n - 1) }

InitNotify ==
    /\ store = <<>>
    /\ sync_history = <<>>
    /\ portal = <<>>
    /\ op = "init"
    /\ snapshot = <<>>
    /\ result = NoResult
    /\ resync = FALSE
    /\ now \in NotifyClocks
    /\ ACCOUNTS \in { <<get_account_config(1, n)>> :
                         n \in { c \in NotificationConfigs : c.enabled } }
    /\ notified = <<>>
    /\ RunIdle

\* main.py:163-270: the call one attempt makes for the account, with
\* lists of at most one new and MaxPending pending rows
SendNotifications ==
    /\ notified = <<>>
    /\ \E delivers \in BOOLEAN :
         \E new_assignments \in
               NotifyLists(<<"n">>, NotifyDues(ACCOUNTS[1], now), 1) :
           \E pending_assignments \in
                 NotifyLists(<<"a", "b", "c", "d">>,
                             NotifyDues(ACCOUNTS[1], now), MaxPending) :
             notified' = <<_send_notifications(ACCOUNTS[1], new_assignments,
                                               pending_assignments, now,
                                               delivers)>>
    /\ UNCHANGED <<storeVars, now, ACCOUNTS, runVars>>

NextNotify == SendNotifications

SpecNotify == InitNotify /\ [][NextNotify]_vars

----------------------------------------------------------------------------
(* Notification properties *)

\* C4. Decision-table exclusivity: every smart-fusion call composes at most
\* one message, and the case it takes is the one the table gives: COMBINED
\* iff new and urgent are non-empty, NEW_ONLY iff only new is, URGENT_ONLY
\* iff only urgent is, SUMMARY iff both are empty and the time of day is
\* morning or evening, NONE iff both are empty and it is neither.
C4_DecisionTable ==
    \A k \in 1..Len(notified) :
        LET n == notified[k]
            has_new == n.new_assignments # <<>>
            has_urgent == n.urgent_assignments # <<>>
            summary == n.time_of_day # None
        IN  n.smart_fusion =>
              /\ n.case \in {"combined", "new_only", "urgent_only",
                             "summary", "none"}
              /\ (n.case = "combined") <=> (has_new /\ has_urgent)
              /\ (n.case = "new_only") <=> (has_new /\ ~has_urgent)
              /\ (n.case = "urgent_only") <=> (~has_new /\ has_urgent)
              /\ (n.case = "summary") <=> (~has_new /\ ~has_urgent /\ summary)
              /\ (n.case = "none") <=> (~has_new /\ ~has_urgent /\ ~summary)
              /\ n.emails = IF n.case = "none" THEN <<>> ELSE <<n.case>>

\* A smart-fusion call at a summary time with new and urgent rows took the
\* combined case
C4_Witness ==
    \E k \in 1..Len(notified) :
        /\ notified[k].smart_fusion
        /\ notified[k].time_of_day = Some("morning")
        /\ notified[k].new_assignments # <<>>
        /\ notified[k].urgent_assignments # <<>>
        /\ notified[k].case = "combined"

\* C5. Urgency rule: a pending assignment is in the urgent list iff it has
\* a due date, the due date is strictly after now, and due date minus now
\* is strictly less than the account's threshold; the urgent list keeps the
\* order of the pending list.
C5_UrgencyRule ==
    \A k \in 1..Len(notified) :
        LET n == notified[k]
            threshold == ACCOUNTS[1].notifications.urgent_threshold
            IsUrgent(a) == /\ a.due_date # None
                           /\ a.due_date[1] > n.at
                           /\ a.due_date[1] - n.at < threshold
        IN  /\ \A i \in 1..Len(n.pending_assignments) :
                  IsUrgent(n.pending_assignments[i]) <=>
                      \E j \in 1..Len(n.urgent_assignments) :
                          n.urgent_assignments[j] = n.pending_assignments[i]
            /\ \A j \in 1..Len(n.urgent_assignments) :
                  \E i \in 1..Len(n.pending_assignments) :
                      n.pending_assignments[i] = n.urgent_assignments[j]

\* A call has put a row due one hour before the threshold in the urgent
\* list and left out a row due exactly at the threshold
C5_Witness ==
    \E k \in 1..Len(notified) :
        LET n == notified[k]
            threshold == ACCOUNTS[1].notifications.urgent_threshold
        IN  /\ Len(n.pending_assignments) = 2
            /\ n.pending_assignments[1].due_date = Some(n.at + threshold - 1)
            /\ n.pending_assignments[2].due_date = Some(n.at + threshold)
            /\ n.urgent_assignments = <<n.pending_assignments[1]>>

----------------------------------------------------------------------------
(* Session handling *)

\* config.py:52
COOKIES_FILE == "data/cookies.enc"

\* auth_manager.py:20-28: the file the manager keeps its cookies in.  The
\* constructor declares no parameter and reads config.COOKIES_FILE; the
\* keyword arguments of main.py:102-106 do not reach it.
AuthManager_cookies_file(account) == COOKIES_FILE

\* auth_manager.py:327-355 with load_cookies (256-282), is_session_valid
\* (284-325) and the end of login (220-226).  valid: the portal accepts the
\* saved cookies; login_ok: a login succeeds.
get_valid_session(fs, cookies_file, valid, login_ok) ==
    IF cookies_file \in fs /\ valid
    THEN [files |-> fs, session |-> "reused"]
    ELSE IF login_ok
    THEN [files |-> fs \cup {cookies_file}, session |-> "login"]
    ELSE [files |-> fs, session |-> "none"]

\* scraper.py:33-284: no session gives []; scraped: the browser reached the
\* assignment rows
scrape_all_assignments(session, rows, scraped, t) ==
    IF session = "none" \/ ~scraped THEN <<>> ELSE ParseRows(rows, t)

----------------------------------------------------------------------------
(* The pipeline of one attempt *)

\* A comparison that takes every row read after the scrape as new
truly_new_All(new_assignments, old_ids) == new_assignments

\* main.py:128-130: the rows read after the scrape whose id was not read
\* before it
truly_new(new_assignments, old_ids) ==
    SelectSeq(new_assignments, LAMBDA a : a.id \notin old_ids)

\* main.py:143-149
SuccessResult(account, new_assignments, new, pending) ==
    [status |-> "success", account |-> account.name,
     total |-> Len(new_assignments), new |-> Len(new),
     pending |-> Len(pending)]

\* main.py:151-161
ErrorResult(account, error) ==
    [status |-> "error", account |-> account.name, total |-> 0,
     error |-> error]

\* A pipeline that notifies whether or not the account has notifications
\* enabled
process_account_AlwaysNotifies(account, db, fs, rows, valid, login_ok, scraped, t, delivers) ==
    LET old_ids == SeqIds(get_all_assignments(db.assignments))
        auth == get_valid_session(fs, AuthManager_cookies_file(account),
                                  valid, login_ok)
        all_assignments == scrape_all_assignments(auth.session, rows,
                                                  scraped, t)
        r == sync_to_database(db.assignments, db.sync_history,
                              all_assignments, t)
        new_assignments == get_all_assignments(r.store)
        pending_assignments == get_pending_assignments(r.store)
        new == truly_new(new_assignments, old_ids)
        raised == r.result.outcome = "raised"
        notification == IF ~raised
                        THEN <<_send_notifications(account, new,
                                                   pending_assignments, t,
                                                   delivers)>>
                        ELSE <<>>
        notification_raised == notification # <<>> /\ notification[1].raised
    IN  [db |-> [assignments |-> r.store, sync_history |-> r.sync_history],
         files |-> auth.files,
         session |-> auth.session,
         found |-> Len(all_assignments),
         sync |-> r.result,
         notified |-> notification,
         result |-> IF raised
                    THEN ErrorResult(account, "IntegrityError")
                    ELSE IF notification_raised
                    THEN ErrorResult(account, "notification")
                    ELSE SuccessResult(account, new_assignments, new,
                                       pending_assignments)]

\* main.py:82-161.  db: the account's database; fs: the cookie files.
process_account(account, db, fs, rows, valid, login_ok, scraped, t, delivers) ==
    LET old_ids == SeqIds(get_all_assignments(db.assignments))
        auth == get_valid_session(fs, AuthManager_cookies_file(account),
                                  valid, login_ok)
        all_assignments == scrape_all_assignments(auth.session, rows,
                                                  scraped, t)
        r == sync_to_database(db.assignments, db.sync_history,
                              all_assignments, t)
        new_assignments == get_all_assignments(r.store)
        pending_assignments == get_pending_assignments(r.store)
        new == truly_new(new_assignments, old_ids)
        raised == r.result.outcome = "raised"
        notification == IF ~raised /\ account.notifications.enabled
                        THEN <<_send_notifications(account, new,
                                                   pending_assignments, t,
                                                   delivers)>>
                        ELSE <<>>
        notification_raised == notification # <<>> /\ notification[1].raised
    IN  [db |-> [assignments |-> r.store, sync_history |-> r.sync_history],
         files |-> auth.files,
         session |-> auth.session,
         found |-> Len(all_assignments),
         sync |-> r.result,
         notified |-> notification,
         result |-> IF raised
                    THEN ErrorResult(account, "IntegrityError")
                    ELSE IF notification_raised
                    THEN ErrorResult(account, "notification")
                    ELSE SuccessResult(account, new_assignments, new,
                                       pending_assignments)]

----------------------------------------------------------------------------
(* The retry orchestrator *)

\* main.py:45
retry_delays == <<30, 60, 90>>

\* main.py:279
RunMaxRetries == 3

\* main.py:51-58: the cookie files after the cleaning of an attempt
CleanCookies(fs, account, n) ==
    IF n > 1 /\ account.cookies_file \in fs
    THEN fs \ {account.cookies_file}
    ELSE fs

\* An orchestrator that raises once its attempts are used up
retry_step_RaiseOnExhaust(n, max, r) ==
    IF r.status = "success" /\ r.total > 0
    THEN [next |-> "success", delay |-> None]
    ELSE IF n < max
    THEN IF n - 1 < Len(retry_delays)
         THEN [next |-> "retry", delay |-> Some(retry_delays[(n - 1) + 1])]
         ELSE [next |-> "IndexError", delay |-> None]
    ELSE [next |-> "IndexError", delay |-> None]

\* The test of main.py:64 without its total > 0
retry_step_AnySuccess(n, max, r) ==
    IF r.status = "success"
    THEN [next |-> "success", delay |-> None]
    ELSE IF n < max
    THEN IF n - 1 < Len(retry_delays)
         THEN [next |-> "retry", delay |-> Some(retry_delays[(n - 1) + 1])]
         ELSE [next |-> "IndexError", delay |-> None]
    ELSE [next |-> "exhausted", delay |-> None]

\* main.py:63-77: what the loop does with the result r of attempt n.
\* "success": return r (line 66); "retry": sleep and go on; "IndexError":
\* retry_delays[n - 1] does not exist; "exhausted": the loop ends and line
\* 80 returns r.
retry_step(n, max, r) ==
    IF r.status = "success" /\ r.total > 0
    THEN [next |-> "success", delay |-> None]
    ELSE IF n < max
    THEN IF n - 1 < Len(retry_delays)
         THEN [next |-> "retry", delay |-> Some(retry_delays[(n - 1) + 1])]
         ELSE [next |-> "IndexError", delay |-> None]
    ELSE [next |-> "exhausted", delay |-> None]

----------------------------------------------------------------------------
(* The orchestrator machine: run() over ACCOUNTS, and direct calls of
   process_account_with_retry *)

MaxRetries == 5     \* largest max_retries of a direct call

\* The rows the portal serves during a run
RunPortals ==
    { <<RawRow(<<"h", " ", "1">>, "echeance", 2, FALSE, None)>>,
      <<RawRow(<<"q", "2">>, "none", 0, FALSE, None)>>,
      <<RawRow(<<"h", " ", "1">>, "echeance", 2, FALSE, None),
        RawRow(<<"q", "2">>, "none", 0, FALSE, None)>> }

\* An account's database: new, or as an earlier run that scraped one
\* pending assignment left it
RunDatabases ==
    LET earlier == sync_to_database(<<>>, <<>>,
                       ParseRows(<<RawRow(<<"h", " ", "1">>, "echeance", 2,
                                          FALSE, None)>>, 0), 0)
    IN  { [assignments |-> <<>>, sync_history |-> <<>>],
          [assignments |-> earlier.store,
           sync_history |-> earlier.sync_history] }

\* The notification options of the accounts of a run
RunNotifications ==
    { n \in NotificationConfigs :
        /\ n.enabled
        /\ n.urgent_threshold = 24
        /\ n.morning_summary /\ n.evening_summary
        /\ n.evening_summary_time = EveningTime }

InitRun ==
    /\ store = <<>>
    /\ sync_history = <<>>
    /\ op = "init"
    /\ snapshot = <<>>
    /\ result = NoResult
    /\ resync = FALSE
    /\ now = 0
    /\ portal \in RunPortals
    /\ ACCOUNTS \in { <<get_account_config(1, n), get_account_config(2, n)>> :
                         n \in RunNotifications }
    /\ notified = <<>>
    /\ databases \in [1..2 -> RunDatabases]
    /\ files \in SUBSET {COOKIES_FILE}
    /\ pc = "idle"
    /\ account_index = 0
    /\ max_retries = 0
    /\ attempt = 0
    /\ attempts = <<>>
    /\ waits = <<>>
    /\ results = <<>>
    /\ returned = None
    /\ success_count = None

\* main.py:272-279: run() starts and calls the orchestrator for the first
\* account
Run ==
    /\ pc = "idle"
    /\ pc' = "run"
    /\ account_index' = 1
    /\ max_retries' = RunMaxRetries
    /\ attempt' = 1
    /\ UNCHANGED <<storeVars, now, notifyVars, databases, files, attempts,
                   waits, results, returned, success_count>>

\* main.py:34-47: process_account_with_retry is called for one account
CallWithRetry(i, max) ==
    /\ pc = "idle"
    /\ pc' = "call"
    /\ account_index' = i
    /\ max_retries' = max
    /\ attempt' = 1
    /\ UNCHANGED <<storeVars, now, notifyVars, databases, files, attempts,
                   waits, results, returned, success_count>>

\* main.py:292
SuccessCount(rs) ==
    Cardinality({ k \in 1..Len(rs) : rs[k].status = "success" })

\* main.py:47-80, one pass of the loop: the cleaning, the pipeline, the
\* test of its result and the wait; when the orchestrator returns to run()
\* also main.py:277-280 and, after the last account, the report of
\* main.py:282-303.  later: the wait of main.py:73 and the work of the
\* next attempt take the clock past the reading strftime('%H:%M') gave
\* this attempt; otherwise the next attempt reads the same one.
Attempt(valid, login_ok, scraped, delivers, later) ==
    /\ pc \in {"run", "call"}
    /\ \E cleaned \in {CleanCookies(files, ACCOUNTS[account_index], attempt)} :
       \E p \in {process_account(ACCOUNTS[account_index],
                                 databases[account_index], cleaned, portal,
                                 valid, login_ok, scraped, now, delivers)} :
       \E step \in {retry_step(attempt, max_retries, p.result)} :
       \E record \in
             {[account |-> ACCOUNTS[account_index].name,
               attempt |-> attempt,
               max_retries |-> max_retries,
               stored |-> Len(get_all_assignments(
                                  databases[account_index].assignments)),
               removed |-> cleaned # files,
               ids_before |-> DOMAIN databases[account_index].assignments,
               ids_after |-> DOMAIN p.db.assignments,
               session |-> p.session,
               found |-> p.found,
               sync |-> p.sync,
               notified |-> p.notified,
               result |-> p.result,
               next |-> step.next]} :
           /\ databases' = [databases EXCEPT ![account_index] = p.db]
           /\ files' = p.files
           /\ attempts' = IF attempt = 1 THEN <<record>>
                          ELSE Append(attempts, record)
           /\ notified' = IF attempt = 1 THEN p.notified
                          ELSE notified \o p.notified
           /\ waits' = IF step.next = "retry"
                       THEN (IF attempt = 1 THEN <<>> ELSE waits)
                                \o <<step.delay[1]>>
                       ELSE (IF attempt = 1 THEN <<>> ELSE waits)
           /\ CASE step.next = "retry" ->
                     /\ attempt' = attempt + 1
                     /\ UNCHANGED <<pc, account_index, max_retries, results,
                                    returned, success_count>>
                [] step.next = "IndexError" ->
                     /\ pc' = "raised"
                     /\ UNCHANGED <<account_index, max_retries, attempt,
                                    results, returned, success_count>>
                [] step.next \in {"success", "exhausted"} /\ pc = "call" ->
                     /\ pc' = "returned"
                     /\ returned' = Some(p.result)
                     /\ UNCHANGED <<account_index, max_retries, attempt,
                                    results, success_count>>
                [] step.next \in {"success", "exhausted"} /\ pc = "run" ->
                     /\ returned' = Some(p.result)
                     /\ results' = Append(results, p.result)
                     /\ IF account_index < Len(ACCOUNTS)
                        THEN /\ account_index' = account_index + 1
                             /\ attempt' = 1
                             /\ UNCHANGED <<pc, max_retries, success_count>>
                        ELSE /\ pc' = "done"
                             /\ success_count' =
                                   Some(SuccessCount(Append(results, p.result)))
                             /\ UNCHANGED <<account_index, max_retries,
                                            attempt>>
           /\ now' = IF step.next = "retry" /\ later THEN now + 1 ELSE now
    /\ UNCHANGED <<storeVars, ACCOUNTS>>

NextRun ==
    \/ Run
    \/ \E i \in 1..2, max \in 1..MaxRetries : CallWithRetry(i, max)
    \/ \E valid \in BOOLEAN, login_ok \in BOOLEAN, scraped \in BOOLEAN,
          delivers \in BOOLEAN :
          Attempt(valid, login_ok, scraped, delivers, FALSE)

SpecRun == InitRun /\ [][NextRun]_vars

----------------------------------------------------------------------------
(* One account-run: run()'s call of process_account_with_retry for the
   first account, with the clock moving between the attempts *)

\* The hour at which the account-run starts: one that is no summary time
\* and the evening summary time
RunClocks == {0, 22}

\* The database of the account: as in a run, or as an earlier run that
\* scraped the quiz while its window was open left it, or as a run of the
\* hour before left it and with its row then marked as notified
AccountRunDatabases ==
    LET earlier == sync_to_database(<<>>, <<>>,
                       ParseRows(<<RawRow(<<"q", "2">>, "disponible", 2,
                                          FALSE, None)>>, 0), 0)
        before == sync_to_database(<<>>, <<>>,
                      ParseRows(<<RawRow(<<"h", " ", "1">>, "echeance", 2,
                                         FALSE, None)>>, -1), -1)
    IN  RunDatabases
          \cup { [assignments |-> earlier.store,
                  sync_history |-> earlier.sync_history] }
          \cup { [assignments |->
                     mark_as_notified(before.store,
                                      assignment_id(Course, <<"h", " ", "1">>),
                                      -1),
                  sync_history |-> before.sync_history] }

\* The notification options of the account, notifications switched on or
\* off
AccountRunNotifications ==
    { n \in NotificationConfigs :
        /\ n.urgent_threshold = 24
        /\ n.morning_summary /\ n.evening_summary
        /\ n.evening_summary_time = EveningTime }

\* main.py:279: process_account_with_retry(account, max_retries=3) has
\* been called
InitAccountRun ==
    /\ store = <<>>
    /\ sync_history = <<>>
    /\ op = "init"
    /\ snapshot = <<>>
    /\ result = NoResult
    /\ resync = FALSE
    /\ now \in RunClocks
    /\ portal \in RunPortals
    /\ ACCOUNTS \in { <<get_account_config(1, n), get_account_config(2, n)>> :
                         n \in AccountRunNotifications }
    /\ notified = <<>>
    /\ databases \in { <<d, [assignments |-> <<>>, sync_history |-> <<>>]>> :
                          d \in AccountRunDatabases }
    /\ files \in SUBSET {COOKIES_FILE}
    /\ pc = "call"
    /\ account_index = 1
    /\ max_retries = RunMaxRetries
    /\ attempt = 1
    /\ attempts = <<>>
    /\ waits = <<>>
    /\ results = <<>>
    /\ returned = None
    /\ success_count = None

NextAccountRun ==
    \E valid \in BOOLEAN, login_ok \in BOOLEAN, scraped \in BOOLEAN,
       delivers \in BOOLEAN, later \in BOOLEAN :
       Attempt(valid, login_ok, scraped, delivers, later)

SpecAccountRun == InitAccountRun /\ [][NextAccountRun]_vars

----------------------------------------------------------------------------
(* Orchestrator properties *)

\* The success test of the retry loop
Succeeded(r) == r.status = "success" /\ r.total > 0

\* The last attempt made is the one the orchestrator returned from
LastReturned ==
    /\ attempts # <<>>
    /\ attempts[Len(attempts)].next \in {"success", "exhausted"}

\* C6. Retry success predicate: an attempt whose result has status success
\* and total 0 is not returned while attempts remain, the orchestrator
\* returns before its last attempt only a result with status success and
\* total > 0, and whatever it returns, after the last attempt included, is
\* the result of its last attempt, field for field.
C6_RetryPredicate ==
    /\ \A k \in 1..Len(attempts) :
          LET a == attempts[k]
          IN  /\ (a.result.status = "success" /\ a.result.total = 0
                    /\ a.attempt < a.max_retries)
                     => a.next \notin {"success", "exhausted"}
              /\ a.next = "success" => Succeeded(a.result)
              /\ a.next = "exhausted" =>
                     a.attempt = a.max_retries /\ ~Succeeded(a.result)
    /\ LastReturned => returned = Some(attempts[Len(attempts)].result)
    /\ (LastReturned /\ pc \in {"run", "done"}) =>
           results[Len(results)] = attempts[Len(attempts)].result

\* Three attempts found nothing in a new database; the third result, with
\* status success and total 0, has been returned as it was
C6_Witness ==
    /\ Len(attempts) = 3
    /\ \A k \in 1..3 :
          attempts[k].result.status = "success" /\ attempts[k].result.total = 0
    /\ attempts[1].next = "retry"
    /\ attempts[2].next = "retry"
    /\ attempts[3].next = "exhausted"
    /\ returned = Some(attempts[3].result)
    /\ DOMAIN returned[1] = {"status", "account", "total", "new", "pending"}

\* C7. Zero found is always retried: an attempt whose scrape found no
\* assignment is never returned from as a success, whatever the database
\* held before the attempt.
C7_ZeroFoundRetried ==
    \A k \in 1..Len(attempts) :
        attempts[k].found = 0 => attempts[k].next # "success"

\* C8. On every attempt n >= 2 the pipeline does not reuse a saved session:
\* it logs in anew (or fails to); attempt 1 removes no cookie file.
C8_FreshLoginOnRetry ==
    \A k \in 1..Len(attempts) :
        /\ attempts[k].attempt >= 2 => attempts[k].session # "reused"
        /\ attempts[k].attempt = 1 => ~attempts[k].removed

\* C9. For every max_retries >= 1 the wait after failed attempt n is the
\* n-th entry of the delay schedule, and the orchestrator never fails for
\* lack of an entry.
C9_DelayDefined ==
    /\ pc # "raised"
    /\ Len(waits) <= Len(retry_delays)
    /\ \A n \in 1..Len(waits) :
          n <= Len(retry_delays) => waits[n] = retry_delays[n]

\* C10. When run() has ended, every account whose retries were exhausted is
\* in the report with status error, and the success count counts exactly
\* the accounts with an attempt that passed the success test.
C10_ExhaustedIsError ==
    pc = "done" =>
        /\ \A i \in 1..Len(results) :
              ~Succeeded(results[i]) => results[i].status = "error"
        /\ success_count =
              Some(Cardinality({ i \in 1..Len(results) : Succeeded(results[i]) }))

----------------------------------------------------------------------------
(* Properties of run() *)

\* main.py:295-301: the report line of each collected result
ReportLines(rs) ==
    [i \in 1..Len(rs) |->
        IF rs[i].status = "success"
        THEN [account |-> rs[i].account, new |-> rs[i].new,
              pending |-> rs[i].pending]
        ELSE [account |-> rs[i].account,
              error |-> IF "error" \in DOMAIN rs[i] THEN rs[i].error
                        ELSE "Erreur inconnue"]]

\* C11. run() calls the orchestrator once per account in the order of
\* ACCOUNTS and collects one result per account: while it runs, the
\* results collected are those of the accounts before the current one, in
\* order, the current account is one of ACCOUNTS and its attempt number is
\* within max_retries; no orchestrator call as run() makes it (max_retries
\* 3) raises; and when run() has ended there is one result and one report
\* line per account, in order, whatever the accounts' outcomes were.
C11_OneResultPerAccount ==
    /\ pc = "run" =>
          /\ account_index \in 1..Len(ACCOUNTS)
          /\ attempt \in 1..max_retries
          /\ Len(results) = account_index - 1
    /\ pc \in {"run", "done"} =>
          \A i \in 1..Len(results) : results[i].account = ACCOUNTS[i].name
    /\ pc = "raised" => max_retries # RunMaxRetries
    /\ pc = "done" =>
          /\ Len(results) = Len(ACCOUNTS)
          /\ Len(ReportLines(results)) = Len(ACCOUNTS)
          /\ \A i \in 1..Len(ACCOUNTS) :
                ReportLines(results)[i].account = ACCOUNTS[i].name

\* run() has ended after the first account ended in an error and the
\* second one in a success
C11_Witness ==
    /\ pc = "done"
    /\ Len(results) = 2
    /\ results[1].status = "error"
    /\ results[2].status = "success"
    /\ results[2].total > 0

----------------------------------------------------------------------------
(* Properties of the pipeline of one attempt *)

\* The attempt composed a message that was not delivered
NotificationFailed(a) ==
    /\ a.notified # <<>>
    /\ a.notified[1].emails # <<>>
    /\ ~a.notified[1].delivered

\* The position in ACCOUNTS of the account with the given name
AccountIndex(name) == CHOOSE i \in 1..Len(ACCOUNTS) : ACCOUNTS[i].name = name

\* C12. An attempt whose notification was composed but not delivered keeps
\* its success result, is followed by another attempt only when its total
\* is 0, and leaves the database as the reconciliation left it: the rows
\* stored are the rows stored before plus the reconciliation's insertions
\* minus its deletions, and sync_history has the reconciliation's one row
\* more.
C12_NotificationFailureNoRetry ==
    /\ \A k \in 1..Len(attempts) :
          NotificationFailed(attempts[k]) =>
              /\ attempts[k].result.status = "success"
              /\ attempts[k].next = "retry" => attempts[k].result.total = 0
              /\ attempts[k].result.total > 0 => attempts[k].next = "success"
    /\ (attempts # <<>> /\ NotificationFailed(attempts[Len(attempts)])) =>
          LET a == attempts[Len(attempts)]
              db == databases[AccountIndex(a.account)]
          IN  Len(get_all_assignments(db.assignments))
                 = a.stored + a.sync.new - a.sync.deleted

\* An attempt that inserted an assignment composed a message, the message
\* was not delivered, and the orchestrator returned the attempt's success
C12_Witness ==
    /\ attempts # <<>>
    /\ LET a == attempts[Len(attempts)]
       IN  /\ NotificationFailed(a)
           /\ a.sync.new > 0
           /\ a.result.status = "success"
           /\ a.next = "success"

----------------------------------------------------------------------------
(* Properties of one reconciliation *)

\* The records of the snapshot that reach the save loop without a due date
Malformed(assignments) ==
    { k \in 1..Len(assignments) :
         ~assignments[k].is_completed /\ assignments[k].due_date = None }

\* The records of the snapshot that reach the save loop with a due date
WellFormed(assignments) ==
    { k \in 1..Len(assignments) :
         ~assignments[k].is_completed /\ assignments[k].due_date # None }

\* C13. Malformed record isolation: after a reconciliation whose snapshot
\* came from a row with an unreadable due date, the reconciliation has
\* returned with status success, the unreadable record is not stored by
\* it, and every other pending record of the snapshot is stored with the
\* snapshot's values.
C13_MalformedIsolated ==
    (op = "sync" /\ Malformed(snapshot) # {}) =>
        /\ result.outcome = "returned"
        /\ result.status = "success"
        /\ \A k \in WellFormed(snapshot) :
              /\ snapshot[k].id \in DOMAIN store
              /\ store[snapshot[k].id].due_date = snapshot[k].due_date
              /\ store[snapshot[k].id].title = snapshot[k].title

\* C15. Empty snapshot: a reconciliation whose scrape returned no record
\* returns new = 0, updated = 0, deleted = 0 with status success, leaves
\* the table of assignments as it was and appends one success row with
\* zero counts to sync_history.
C15_EmptySnapshot ==
    [][(SyncStep /\ snapshot' = <<>>) =>
          /\ result'.outcome = "returned"
          /\ result'.status = "success"
          /\ result'.new = 0
          /\ result'.updated = 0
          /\ result'.deleted = 0
          /\ store' = store
          /\ sync_history' = Append(sync_history,
                                    [status |-> "success",
                                     assignments_found |-> 0,
                                     new_assignments |-> 0,
                                     updated_assignments |-> 0,
                                     error_message |-> None])]_vars

\* An empty snapshot has been reconciled against a store that holds a
\* completed record, after an earlier reconciliation
C15_Witness ==
    /\ op = "sync"
    /\ snapshot = <<>>
    /\ result.outcome = "returned"
    /\ Len(sync_history) = 2
    /\ \E i \in DOMAIN store : store[i].is_completed = 1

\* The last record of the list with the given id
LastWithId(assignments, id) ==
    assignments[CHOOSE k \in 1..Len(assignments) :
                    /\ assignments[k].id = id
                    /\ \A j \in (k + 1)..Len(assignments) :
                          assignments[j].id # id]

\* C16. Upsert rule: after a reconciliation every id of the filtered
\* snapshot is stored once, with the title, course, due_date,
\* is_completed, grade, link and description of the last snapshot item of
\* that id; the items counted as new are those whose id was not stored
\* when they were saved, and all the others are counted as updated.
C16_UpsertRule ==
    [][SyncStep =>
          LET pending == _filter_future_assignments(snapshot')
          IN  /\ \A i \in SeqIds(pending) :
                    /\ i \in DOMAIN store'
                    /\ LET a == LastWithId(pending, i)
                       IN  RecordSet(store')[i] =
                              [title |-> a.title, course |-> a.course,
                               due_date |-> a.due_date,
                               is_completed |-> SqlBool(a.is_completed),
                               grade |-> a.grade, link |-> a.link,
                               description |-> a.description]
              /\ result'.new = Cardinality(SeqIds(pending) \ DOMAIN store)
              /\ result'.updated = Len(pending) - result'.new]_vars

\* C18. One sync_history row per reconciliation: every reconciliation
\* appends exactly one row, with status success when it returned and
\* with status error and an error text when it raised part-way.
C18_OneSyncRecord ==
    [][SyncStep =>
          /\ Len(sync_history') = Len(sync_history) + 1
          /\ SubSeq(sync_history', 1, Len(sync_history)) = sync_history
          /\ LET row == sync_history'[Len(sync_history')]
             IN  IF result'.outcome = "returned"
                 THEN row.status = "success"
                 ELSE row.status = "error" /\ row.error_message # None]_vars

\* C19. Completion reaches the store: after a reconciliation that
\* returned, every stored assignment the snapshot shows as completed
\* (graded, submitted or missed) is stored with is_completed = 1 and is
\* not among the rows get_pending_assignments returns.
C19_CompletionStored ==
    (op = "sync" /\ result.outcome = "returned") =>
        \A k \in 1..Len(snapshot) :
            (snapshot[k].is_completed /\ snapshot[k].id \in DOMAIN store) =>
                /\ store[snapshot[k].id].is_completed = 1
                /\ snapshot[k].id \notin SeqIds(get_pending_assignments(store))

\* The snapshot records with status pending or overdue, in page order
Kept(assignments) ==
    SelectSeq(assignments, LAMBDA a : a.status \in {"pending", "overdue"})

----------------------------------------------------------------------------
(* Properties of the notification stage *)

\* C24. Time-of-day derivation: a smart-fusion call takes the time of day
\* to be morning iff the morning summary is on and the clock string is the
\* morning time; evening iff it is not morning, the evening summary is on
\* and the clock string is the evening time; and none otherwise.  With
\* both times equal and both summaries on it is morning.
C24_TimeOfDay ==
    \A k \in 1..Len(notified) :
        LET n == notified[k]
            config == ACCOUNTS[1].notifications
            is_morning == config.morning_summary
                             /\ strftime_HM(n.at) = config.morning_summary_time
            is_evening == config.evening_summary
                             /\ strftime_HM(n.at) = config.evening_summary_time
        IN  n.smart_fusion =>
              /\ n.time_of_day = Some("morning") <=> is_morning
              /\ n.time_of_day = Some("evening") <=> (~is_morning /\ is_evening)
              /\ n.time_of_day = None <=> (~is_morning /\ ~is_evening)
              /\ n.time_of_day \in {None, Some("morning"), Some("evening")}

\* Both summaries are on with the same time, the clock shows it, and the
\* call took the time of day to be morning
C24_Witness ==
    /\ notified # <<>>
    /\ notified[1].smart_fusion
    /\ ACCOUNTS[1].notifications.morning_summary
    /\ ACCOUNTS[1].notifications.evening_summary
    /\ ACCOUNTS[1].notifications.evening_summary_time
          = ACCOUNTS[1].notifications.morning_summary_time
    /\ strftime_HM(notified[1].at)
          = ACCOUNTS[1].notifications.morning_summary_time
    /\ notified[1].time_of_day = Some("morning")

\* C26. Under the pipeline alone, from an empty store: no stored row ever
\* has is_completed set, every reconciliation reports deleted = 0, and no
\* step removes an id from the store.
C26_NeverCompleted ==
    [][/\ \A i \in DOMAIN store' : store'[i].is_completed = 0
       /\ DOMAIN store \subseteq DOMAIN store'
       /\ SyncStep => result'.deleted = 0]_vars

\* A second reconciliation, whose snapshot shows a completed record and
\* lacks a stored one, has returned and the stored one is still there
C26_Witness ==
    /\ op = "sync"
    /\ Len(sync_history) = 2
    /\ result.outcome = "returned"
    /\ \E k \in 1..Len(snapshot) : snapshot[k].is_completed
    /\ \E i \in DOMAIN store : i \notin SeqIds(snapshot)

\* C27. Counts: after a reconciliation of a non-empty snapshot that
\* returned, new + updated is the number of snapshot records with status
\* pending or overdue, two records of one id counted twice, and the row
\* appended to sync_history has that number as assignments_found together
\* with the same new and updated counts.
C27_CountsAddUp ==
    (op = "sync" /\ snapshot # <<>> /\ result.outcome = "returned") =>
        LET row == sync_history[Len(sync_history)]
        IN  /\ result.new + result.updated = Len(Kept(snapshot))
            /\ row.assignments_found = Len(Kept(snapshot))
            /\ row.new_assignments = result.new
            /\ row.updated_assignments = result.updated

\* A reconciliation of two records of one id has counted one insertion
\* and one update and logged two found, with one row stored
C27_Witness ==
    /\ op = "sync"
    /\ result.outcome = "returned"
    /\ Len(snapshot) = 2
    /\ snapshot[1].id = snapshot[2].id
    /\ result.new = 1
    /\ result.updated = 1
    /\ sync_history[Len(sync_history)].assignments_found = 2
    /\ Cardinality(DOMAIN store) = 1

\* The number of messages of the given kind among those composed
Sent(emails, kind) == Cardinality({ k \in 1..Len(emails) : emails[k] = kind })

\* C30. Separate mode: a call without smart fusion composes a
\* new-assignment message iff the new list is not empty and the option
\* is on, an urgent message iff some pending row is due after now and
\* less than the threshold after it, a morning summary iff it is on and
\* the clock string is the morning time, an evening summary iff it is on
\* and the clock string is the evening time; each at most once, none
\* instead of another, between 0 and 4 in all.
C30_SeparateMode ==
    \A k \in 1..Len(notified) :
        LET n == notified[k]
            config == ACCOUNTS[1].notifications
            has_urgent ==
                \E j \in 1..Len(n.pending_assignments) :
                    LET d == n.pending_assignments[j].due_date
                    IN  /\ d # None
                        /\ 0 < d[1] - n.at
                        /\ d[1] - n.at < config.urgent_threshold
        IN  ~n.smart_fusion =>
              /\ Sent(n.emails, "new") =
                    (IF config.new_assignments /\ n.new_assignments # <<>>
                     THEN 1 ELSE 0)
              /\ Sent(n.emails, "urgent") = (IF has_urgent THEN 1 ELSE 0)
              /\ Sent(n.emails, "morning") =
                    (IF config.morning_summary
                        /\ strftime_HM(n.at) = config.morning_summary_time
                     THEN 1 ELSE 0)
              /\ Sent(n.emails, "evening") =
                    (IF config.evening_summary
                        /\ strftime_HM(n.at) = config.evening_summary_time
                     THEN 1 ELSE 0)
              /\ Len(n.emails) = Sent(n.emails, "new") + Sent(n.emails, "urgent")
                                   + Sent(n.emails, "morning")
                                   + Sent(n.emails, "evening")
              /\ Len(n.emails) <= 4

\* One call without smart fusion has composed all four messages
C30_Witness ==
    /\ notified # <<>>
    /\ ~notified[1].smart_fusion
    /\ notified[1].emails = <<"new", "urgent", "morning", "evening">>

----------------------------------------------------------------------------
(* Properties of one attempt from the portal to the notification *)

\* The records of the list that are pending and due after t and less than
\* urgent_threshold hours after it
DueSoon(assignments, urgent_threshold, t) ==
    { k \in 1..Len(assignments) :
         /\ ~assignments[k].is_completed
         /\ assignments[k].due_date # None
         /\ 0 < assignments[k].due_date[1] - t
         /\ assignments[k].due_date[1] - t < urgent_threshold }

\* C20. End to end: an attempt of an account with smart fusion that
\* starts from an empty database, at a time that is no summary time, and
\* scrapes a snapshot holding a pending record due within the urgency
\* threshold ends with that record counted as new (updated = 0,
\* deleted = 0), listed as urgent, and the combined notification chosen.
C20_EndToEnd ==
    \A n \in 1..Len(attempts) :
        LET a == attempts[n]
            config == ACCOUNTS[AccountIndex(a.account)].notifications
            scraped == ParseRows(portal, now)
            soon == DueSoon(scraped, config.urgent_threshold, now)
        IN  (/\ a.stored = 0
             /\ a.found > 0
             /\ config.enabled /\ config.smart_fusion
             /\ time_of_day(config, now) = None
             /\ soon # {}) =>
                /\ a.sync.outcome = "returned"
                /\ a.sync.new >= 1
                /\ a.sync.updated = 0
                /\ a.sync.deleted = 0
                /\ a.notified # <<>>
                /\ a.notified[1].case = "combined"
                /\ \A k \in soon :
                      /\ scraped[k].id \in SeqIds(a.notified[1].new_assignments)
                      /\ scraped[k].id \in SeqIds(a.notified[1].urgent_assignments)

\* C21. The new-assignment list of an attempt that reached the
\* notification stage holds the ids stored after the reconciliation that
\* were not stored before the scrape, once each; it is as long as the
\* reconciliation's new count; and its elements are the rows as stored.
C21_NewListIsInserted ==
    \A n \in 1..Len(attempts) :
        LET a == attempts[n]
        IN  a.notified # <<>> =>
               LET new == a.notified[1].new_assignments
               IN  /\ SeqIds(new) = a.ids_after \ a.ids_before
                   /\ Len(new) = Cardinality(SeqIds(new))
                   /\ Len(new) = a.sync.new
                   /\ n = Len(attempts) =>
                         \A k \in 1..Len(new) :
                            new[k] = databases[AccountIndex(a.account)]
                                        .assignments[new[k].id]

\* An attempt over a database that already held a row inserted another
\* one and handed exactly that one to the notification stage
C21_Witness ==
    \E n \in 1..Len(attempts) :
        /\ attempts[n].notified # <<>>
        /\ attempts[n].ids_before # {}
        /\ attempts[n].sync.new = 1
        /\ Len(attempts[n].notified[1].new_assignments) = 1

----------------------------------------------------------------------------
(* Properties of one account-run *)

\* The messages handed to send_email during the account-run so far
RECURSIVE Emitted(_)
Emitted(calls) ==
    IF calls = <<>> THEN 0
    ELSE Len(calls[1].emails) + Emitted(Tail(calls))

\* C17. With smart fusion on, all the attempts of one call of
\* process_account_with_retry together hand at most one message to
\* send_email.
C17_OnePerAccountRun ==
    (pc \in {"call", "returned"} /\ ACCOUNTS[account_index].notifications.smart_fusion)
        => Emitted(notified) <= 1

\* The waits made before attempt n of an account-run
WaitsBefore(n) ==
    Cardinality({ k \in 1..(n - 1) : attempts[k].next = "retry" })

\* C22. Bounded retry: the attempts of a call are numbered 1, 2, ... up
\* to max_retries at most; an attempt that passes the success test is the
\* last one; an attempt that does not (total 0 or an exception in the
\* pipeline) is followed by a wait and the next attempt while attempts
\* remain, and by the return without a wait when it was the last.
C22_BoundedRetry ==
    /\ Len(attempts) <= max_retries
    /\ \A k \in 1..Len(attempts) :
          LET a == attempts[k]
          IN  /\ a.attempt = k
              /\ Succeeded(a.result) => a.next = "success"
              /\ (~Succeeded(a.result) /\ k < a.max_retries) =>
                     a.next = "retry"
              /\ (~Succeeded(a.result) /\ k = a.max_retries) =>
                     a.next = "exhausted"
              /\ a.next # "retry" => k = Len(attempts)
    /\ Len(waits) = WaitsBefore(Len(attempts) + 1)

\* C25. No insertion goes unannounced: once the account-run is over,
\* every id an attempt inserted into the database is in the
\* new-assignment list handed to the notification stage by some attempt
\* of the same account-run.
C25_InsertedIsAnnounced ==
    (LastReturned /\ ACCOUNTS[account_index].notifications.enabled) =>
        \A n \in 1..Len(attempts) :
            \A i \in attempts[n].ids_after \ attempts[n].ids_before :
                \E m \in 1..Len(attempts) :
                    /\ attempts[m].notified # <<>>
                    /\ i \in SeqIds(attempts[m].notified[1].new_assignments)

\* The throttle bookkeeping of a row and its creation time
Bookkeeping(row) ==
    <<row.last_notified, row.notification_count, row.created_at>>

\* The rows with their bookkeeping as a fresh INSERT sets it
Unmarked(rows) ==
    [k \in 1..Len(rows) |->
        [rows[k] EXCEPT !.last_notified = None, !.notification_count = 0,
                        !.created_at = 0]]

\* What a call of _send_notifications decided
Decision(n) == <<n.case, n.emails, SeqIds(n.urgent_assignments), n.time_of_day>>

\* C28. The throttle bookkeeping is left alone: an attempt, whatever it
\* updates and whatever its notification does, leaves last_notified,
\* notification_count and created_at of every row that stays stored as
\* they were, and what its notification stage decided is what it decides
\* for the same rows with those fields as a fresh insertion sets them.
C28_BookkeepingUntouched ==
    [][/\ \A acc \in DOMAIN databases :
             \A i \in DOMAIN databases[acc].assignments
                         \cap DOMAIN databases'[acc].assignments :
                 Bookkeeping(databases'[acc].assignments[i])
                    = Bookkeeping(databases[acc].assignments[i])
       /\ \A k \in 1..Len(notified') :
             LET n == notified'[k]
             IN  Decision(n) =
                    Decision(_send_notifications(
                                 ACCOUNTS[AccountIndex(n.account)],
                                 Unmarked(n.new_assignments),
                                 Unmarked(n.pending_assignments), n.at,
                                 n.delivered))]_vars

\* An attempt has updated a row that had been marked as notified an hour
\* earlier, listed it as urgent, and the row is still marked
C28_Witness ==
    /\ attempts # <<>>
    /\ attempts[Len(attempts)].sync.updated = 1
    /\ attempts[Len(attempts)].notified # <<>>
    /\ attempts[Len(attempts)].notified[1].urgent_assignments # <<>>
    /\ \E i \in DOMAIN databases[1].assignments :
          /\ databases[1].assignments[i].notification_count = 1
          /\ databases[1].assignments[i].last_notified = Some(-1)
          /\ databases[1].assignments[i].created_at = -1
          /\ databases[1].assignments[i].updated_at = now

\* C29. Notifications switched off: no attempt of an account whose
\* notifications are not enabled hands anything to the notification
\* stage, while its reconciliation runs and its result is counted as for
\* any account: total is the number of rows stored after the
\* reconciliation and new the number of rows it inserted.
C29_DisabledIsSilent ==
    \A n \in 1..Len(attempts) :
        LET a == attempts[n]
        IN  ~ACCOUNTS[AccountIndex(a.account)].notifications.enabled =>
               /\ a.notified = <<>>
               /\ notified = <<>>
               /\ a.sync.outcome = "returned" =>
                     /\ a.result.status = "success"
                     /\ a.result.total = Cardinality(a.ids_after)
                     /\ a.result.new = Cardinality(a.ids_after \ a.ids_before)
                     /\ a.result.new = a.sync.new

\* An attempt of an account without notifications has inserted a row due
\* within the urgency threshold at the evening summary time and returned
\* it in its counts, and nothing was handed to the notification stage
C29_Witness ==
    /\ attempts # <<>>
    /\ ~ACCOUNTS[account_index].notifications.enabled
    /\ attempts[Len(attempts)].sync.new = 1
    /\ attempts[Len(attempts)].result.status = "success"
    /\ attempts[Len(attempts)].result.new = 1
    /\ attempts[Len(attempts)].notified = <<>>
    /\ strftime_HM(now) = EveningTime

----------------------------------------------------------------------------
(* The parser on its own: one table row is read at one moment *)

MaxDue == 1     \* due dates lie at most this many hours from now

\* The rows the parser is given: every way of writing the date, before,
\* at and after the moment of parsing, with and without a submission and
\* a note, under a title that is kept and under one that is too short
ParseInputs ==
    { RawRow(title, dueKind, due, soumission, note) :
        title \in { <<"q", "2">>, <<"x">> },
        dueKind \in { "echeance", "disponible", "unparseable", "none" },
        due \in -MaxDue..MaxDue,
        soumission \in BOOLEAN,
        note \in { None, Some(TestGrade) } }

InitParse ==
    /\ store = <<>>
    /\ sync_history = <<>>
    /\ portal \in { <<row>> : row \in ParseInputs }
    /\ now = 0
    /\ op = "init"
    /\ snapshot = <<>>
    /\ result = NoResult
    /\ resync = FALSE
    /\ ACCOUNTS = <<>>
    /\ notified = <<>>
    /\ RunIdle

\* scraper.py:264-278: the row of the page is parsed
ParseRow ==
    /\ op = "init"
    /\ snapshot' = ParseRows(portal, now)
    /\ op' = "parse"
    /\ UNCHANGED <<store, sync_history, portal, now, result, resync>>
    /\ UNCHANGED <<notifyVars, runVars>>

NextParse == ParseRow

SpecParse == InitParse /\ [][NextParse]_vars

\* The row states a due date that lies before t
PastDue(row, t) ==
    row.dueKind \in {"echeance", "disponible"} /\ row.due < t

\* C14. Status derivation: the record parsed from a row has status graded
\* when the row has a note; else submitted when it records a submission;
\* else, when its due date is past, missed for a quiz and overdue
\* otherwise; else pending (rows without a readable due date included).
\* is_completed holds exactly for graded, submitted and missed, and an
\* overdue record is not completed and has a past due date.
C14_StatusDerivation ==
    (op = "parse" /\ snapshot # <<>>) =>
        LET row == portal[1]
            a == snapshot[1]
        IN  /\ a.status = IF row.note # None THEN "graded"
                          ELSE IF row.soumission THEN "submitted"
                          ELSE IF PastDue(row, now)
                               THEN (IF row.dueKind = "disponible"
                                     THEN "missed" ELSE "overdue")
                          ELSE "pending"
            /\ a.is_completed <=> a.status \in {"graded", "submitted", "missed"}
            /\ a.status = "overdue" =>
                  /\ ~a.is_completed
                  /\ a.due_date # None
                  /\ a.due_date[1] < now
            /\ (a.due_date = None /\ row.note = None /\ ~row.soumission) =>
                  a.status = "pending"

\* A row with a note and a past due date has been parsed to a graded,
\* completed record
C14_Witness ==
    /\ op = "parse"
    /\ snapshot # <<>>
    /\ portal[1].note # None
    /\ PastDue(portal[1], now)
    /\ portal[1].soumission
    /\ snapshot[1].status = "graded"
    /\ snapshot[1].is_completed

====
